---- MODULE Spec2Model ----
(***************************************************************************)
(* Model of the SDH-AnimationChanger backend (main.py): the selection      *)
(* store (config), the local scan results, the filesystem under the Steam  *)
(* movies directories, and the handlers that activate animations.          *)
(*                                                                         *)
(* Strings built by the code with '/' (f'{directory}/{filename}') are      *)
(* modelled as tuples of their components; the empty string '' is <<>>.    *)
(* A filesystem path is a record [root, id, ext].                          *)
(***************************************************************************)
EXTENDS Integers, Sequences, FiniteSets, TLC

VARIABLES
    system,            \* platform.system(), fixed for a run of the plugin
    config,            \* the global config dict (the Selection Store)
    local_animations,  \* global local_animations (list of entries)
    local_sets,        \* global local_sets (list of sets)
    dirs,              \* the subdirectories of ANIMATIONS_PATH, in os.walk order
    disk,              \* source files on disk: path -> content (NoData: no file)
    target,            \* per video (index into VIDEOS_NAMES): what is at target_path
    backup,            \* per video: content of target_path + '.backup' (NoData: none)
    shipped,           \* per video: whether Steam's own file was at target_path at first
    last,              \* observations of the apply_animation calls of the last handler
    op,                \* the last handler run: its name and arguments
    config_file,       \* what is stored at CONFIG_PATH
    animation_cache,   \* global animation_cache (list of repository entries)
    unloaded,          \* global unloaded, set by Plugin._unload
    pc,                \* where Plugin._main stands
    trace,             \* the steps Plugin._main has taken, in order
    fetched,           \* the last get_steamdeckrepo call: the responses it met and its result
    inflight           \* the downloadAnimation calls suspended on their request, oldest first

vars == <<system, config, local_animations, local_sets, dirs, disk, target, backup, shipped, last, op,
          config_file, animation_cache, unloaded, pc, trace, fetched, inflight>>

\* the variables of the remote catalog and of startup
netvars == <<animation_cache, unloaded, pc, trace, fetched, inflight>>

----------------------------------------------------------------------------
(* Platform constants, main.py lines 67-106 *)

get_video_names(sys) ==
    IF sys = "Windows"
    THEN [boot |-> "bigpicture_startup.webm",
          suspend |-> "bigpicture_suspend.webm",
          throbber |-> "bigpicture_suspend_from_throbber.webm"]
    ELSE [boot |-> "deck_startup.webm",
          suspend |-> "steam_os_suspend.webm",
          throbber |-> "steam_os_suspend_from_throbber.webm"]

VIDEOS_NAMES(sys) ==
    <<get_video_names(sys).boot, get_video_names(sys).suspend, get_video_names(sys).throbber>>

VIDEO_TYPES == <<"boot", "suspend", "throbber">>

\* targets that give the throbber slot a pool of its own
VIDEO_TARGETS_PER_SLOT == <<"boot", "suspend", "throbber">>

VIDEO_TARGETS == <<"boot", "suspend", "suspend">>

\* is_video_supported of a platform that takes every slot
is_video_supported_everywhere(sys, video_type) == TRUE

is_video_supported(sys, video_type) ==
    IF sys = "Windows" THEN video_type = "boot" ELSE TRUE

----------------------------------------------------------------------------
(* Files: contents, paths and what can be found at a path *)

NoPath == [root |-> "", id |-> <<>>, ext |-> ""]

\* os.path.join(DOWNLOADS_PATH, f'{anim_id}.webm')
DownloadPath(anim_id) == [root |-> "downloads", id |-> anim_id, ext |-> ".webm"]

\* os.path.join(ANIMATIONS_PATH, anim_id)
LocalPath(anim_id) == [root |-> "animations", id |-> anim_id, ext |-> ""]

NoData == [kind |-> "none", of |-> NoPath]
Vendor == [kind |-> "vendor", of |-> NoPath]      \* the file Steam ships
Partial == [kind |-> "partial", of |-> NoPath]    \* a copy cut short by an error
DataOf(p) == [kind |-> "data", of |-> p]          \* the animation first stored at p

Absent == [kind |-> "absent", data |-> NoData, to |-> NoPath]
RegularFile(d) == [kind |-> "file", data |-> d, to |-> NoPath]
SymLink(p) == [kind |-> "link", data |-> NoData, to |-> p]

\* os.path.exists of a source path
PathExists(dsk, p) == p \in DOMAIN dsk /\ dsk[p] # NoData

\* os.path.islink(target_path)
IsLink(t) == t.kind = "link"

\* os.path.exists(target_path): follows a link
TargetExists(dsk, t) ==
    \/ t.kind = "file"
    \/ t.kind = "link" /\ PathExists(dsk, t.to)

\* what a reader of target_path gets (NoData: nothing to read)
ReadTarget(dsk, t) ==
    IF t.kind = "file" THEN t.data
    ELSE IF t.kind = "link" /\ t.to \in DOMAIN dsk THEN dsk[t.to]
    ELSE NoData

----------------------------------------------------------------------------
(* What the filesystem may answer to one apply_animation call.  Each       *)
(* operation the call makes either succeeds or raises; a copy that raises  *)
(* has written nothing ("none") or a truncated file ("partial").           *)

CopyResults == {"ok", "none", "partial"}

Results == {"ok", "fail"}

Faults == [backup : CopyResults, remove : Results, symlink : Results, copy : CopyResults]

NoFaults == [backup |-> "ok", remove |-> "ok", symlink |-> "ok", copy |-> "ok"]

\* shutil.copy2(src, dst) where dst is target_path: src_data is what is read
\* from src, src_path the source path (NoPath when src is the backup file).
\* copy2 opens dst following a link, so a copy onto a link rewrites the linked
\* file; it raises SameFileError when dst is a link to src itself.
copy2(src_data, src_path, dst, dsk, res) ==
    LET same == dst.kind = "link" /\ src_path # NoPath /\ dst.to = src_path
        written == IF res = "ok" THEN src_data ELSE Partial
    IN  IF same \/ res = "none"
        THEN [dst |-> dst, disk |-> dsk, raised |-> TRUE]
        ELSE [dst |-> IF dst.kind = "link" THEN dst ELSE RegularFile(written),
              disk |-> IF dst.kind = "link" /\ dst.to \in DOMAIN dsk
                       THEN [dsk EXCEPT ![dst.to] = written] ELSE dsk,
              raised |-> res # "ok"]

----------------------------------------------------------------------------
(* Resolution of an identifier, apply_animation lines 341-358 *)

RECURSIVE IndexOfId(_, _, _)
\* index of the first entry of seq (from position k) whose id is anim_id, 0 if none
IndexOfId(seq, anim_id, k) ==
    IF k > Len(seq) THEN 0
    ELSE IF seq[k].id = anim_id THEN k
    ELSE IndexOfId(seq, anim_id, k + 1)

HasId(seq, anim_id) == IndexOfId(seq, anim_id, 1) # 0

\* ResolvePath consulting the custom records before the downloads
ResolvePathCustomFirst(cfg, locals, anim_id) ==
    IF HasId(cfg.custom_animations, anim_id)
    THEN cfg.custom_animations[IndexOfId(cfg.custom_animations, anim_id, 1)].path
    ELSE IF HasId(cfg.downloads, anim_id) THEN DownloadPath(anim_id)
    ELSE IF HasId(locals, anim_id) THEN LocalPath(anim_id)
    ELSE NoPath

\* the for/else chain over config['downloads'], config['custom_animations'],
\* local_animations; NoPath stands for path = None
ResolvePath(cfg, locals, anim_id) ==
    IF HasId(cfg.downloads, anim_id) THEN DownloadPath(anim_id)
    ELSE IF HasId(cfg.custom_animations, anim_id)
         THEN cfg.custom_animations[IndexOfId(cfg.custom_animations, anim_id, 1)].path
    ELSE IF HasId(locals, anim_id) THEN LocalPath(anim_id)
    ELSE NoPath

\* line 357: path is None or not os.path.exists(path)
ResolutionFails(dsk, path) == path = NoPath \/ ~PathExists(dsk, path)

----------------------------------------------------------------------------
(* apply_animation, lines 291-374 *)

\* line 306: platform.system() == 'Windows' and STEAMUI_MOVIES_PATH
\* (the Steam root is taken to have been found)
UseSteamui(sys) == sys = "Windows"

\* NeedsBackup without the test that no backup exists yet
NeedsBackupAlways(bak, dsk, tgt) == TargetExists(dsk, tgt)

\* line 312: not os.path.exists(backup_path) and os.path.exists(target_path)
NeedsBackup(bak, dsk, tgt) == bak = NoData /\ TargetExists(dsk, tgt)

\* NeedsRemove of a call that leaves what is at target_path in place
NeedsRemoveNever(dsk, tgt) == FALSE

\* line 323: os.path.islink(target_path) or os.path.exists(target_path)
NeedsRemove(dsk, tgt) == IsLink(tgt) \/ TargetExists(dsk, tgt)

\* FallsBackToCopy of a call that copies on every platform
FallsBackAlways(sys) == TRUE

\* line 367: platform.system() == 'Windows' or use_steamui
FallsBackToCopy(sys) == sys = "Windows" \/ UseSteamui(sys)

\* index of video in VIDEOS_NAMES (lines 293-297); 0 when it is none of them
VideoIndex(sys, video) ==
    IF \E i \in 1..3 : VIDEOS_NAMES(sys)[i] = video
    THEN CHOOSE i \in 1..3 : VIDEOS_NAMES(sys)[i] = video /\ \A j \in 1..(i - 1) : VIDEOS_NAMES(sys)[j] # video
    ELSE 0

\* The result of the call on the files of one video: the new disk, target and
\* backup, the outcome ("skipped", "ok", "NotFoundError", "ActivationIOError")
\* and what the call did on the way.
apply_animation(sys, cfg, locals, dsk, tgt, bak, video, anim_id, f) ==
    LET i == VideoIndex(sys, video)
        none == [disk |-> dsk, tgt |-> tgt, bak |-> bak, outcome |-> "skipped",
                 path |-> NoPath, backupMade |-> FALSE, removeFailed |-> FALSE,
                 restoreTried |-> FALSE, symlinkTried |-> FALSE, symlinkFailed |-> FALSE,
                 copyTried |-> FALSE, copyFailed |-> FALSE]
        \* lines 304-320
        doBackup == UseSteamui(sys) /\ NeedsBackup(bak, dsk, tgt)
        bak1 == IF ~doBackup THEN bak
                ELSE IF f.backup = "ok" THEN ReadTarget(dsk, tgt)
                ELSE IF f.backup = "partial" THEN Partial
                ELSE NoData
        \* lines 322-327
        doRemove == NeedsRemove(dsk, tgt)
        tgt1 == IF doRemove /\ f.remove = "ok" THEN Absent ELSE tgt
        base == [none EXCEPT !.bak = bak1, !.tgt = tgt1, !.outcome = "ok",
                             !.backupMade = (doBackup /\ bak1 # NoData),
                             !.removeFailed = (doRemove /\ f.remove # "ok")]
        \* lines 329-339
        doRestore == UseSteamui(sys) /\ bak1 # NoData
        restored == copy2(bak1, NoPath, tgt1, dsk, f.copy)
        \* lines 341-358
        path == ResolvePath(cfg, locals, anim_id)
        \* lines 360-374: os.symlink raises when the link cannot be made or
        \* something is still at target_path
        linkFails == f.symlink # "ok" \/ tgt1 # Absent
        copied == copy2(dsk[path], path, tgt1, dsk, f.copy)
    IN  IF i # 0 /\ ~is_video_supported(sys, VIDEO_TYPES[i]) THEN none
        ELSE IF anim_id = <<>>
        THEN IF doRestore
             THEN [base EXCEPT !.tgt = restored.dst, !.disk = restored.disk,
                               !.restoreTried = TRUE, !.copyFailed = restored.raised]
             ELSE base
        ELSE IF ResolutionFails(dsk, path)
        THEN [base EXCEPT !.outcome = "NotFoundError", !.path = path]
        ELSE IF ~linkFails
        THEN [base EXCEPT !.tgt = SymLink(path), !.path = path, !.symlinkTried = TRUE]
        ELSE IF FallsBackToCopy(sys)
        THEN [base EXCEPT !.tgt = copied.dst, !.disk = copied.disk, !.path = path,
                          !.symlinkTried = TRUE, !.symlinkFailed = TRUE,
                          !.copyTried = TRUE, !.copyFailed = copied.raised,
                          !.outcome = IF copied.raised THEN "ActivationIOError" ELSE "ok"]
        ELSE [base EXCEPT !.path = path, !.symlinkTried = TRUE, !.symlinkFailed = TRUE,
                          !.outcome = "ActivationIOError"]

----------------------------------------------------------------------------
(* apply_animations, lines 377-379 *)

\* what one apply_animation call is recorded to have done; source is what the
\* resolved file held when the call was made, faults what the filesystem answered
Observation(i, anim_id, dsk, f, r) ==
    [video |-> i, anim_id |-> anim_id, outcome |-> r.outcome, path |-> r.path, faults |-> f,
     source |-> IF r.path \in DOMAIN dsk THEN dsk[r.path] ELSE NoData,
     backupMade |-> r.backupMade, removeFailed |-> r.removeFailed,
     restoreTried |-> r.restoreTried, symlinkTried |-> r.symlinkTried,
     symlinkFailed |-> r.symlinkFailed, copyTried |-> r.copyTried,
     copyFailed |-> r.copyFailed]

Raised(outcome) == outcome \in {"NotFoundError", "ActivationIOError"}

\* line 378: whether the loop goes on to the next video after a call
LoopContinues(outcome) == ~Raised(outcome)

\* the files and the observations after the call on video i gave r
Called1(w, i, anim_id, f, r) ==
    [disk |-> r.disk,
     target |-> [w.target EXCEPT ![i] = r.tgt],
     backup |-> [w.backup EXCEPT ![i] = r.bak],
     obs |-> Append(w.obs, Observation(i, anim_id, w.disk, f, r))]

RECURSIVE apply_animations_from(_, _, _, _, _, _)
\* the loop from video i on; w = [disk, target, backup, obs]; fs[i] is what the
\* filesystem answers to the i-th call.  An exception leaves the loop.
apply_animations_from(sys, cfg, locals, w, fs, i) ==
    IF i > 3 THEN w
    ELSE LET anim_id == cfg[VIDEO_TYPES[i]]
         IN  CHOOSE out \in
                 {IF LoopContinues(r.outcome)
                  THEN apply_animations_from(sys, cfg, locals, Called1(w, i, anim_id, fs[i], r), fs, i + 1)
                  ELSE Called1(w, i, anim_id, fs[i], r) :
                  r \in {apply_animation(sys, cfg, locals, w.disk, w.target[i], w.backup[i],
                                         VIDEOS_NAMES(sys)[i], anim_id, fs[i])}} : TRUE

apply_animations(sys, cfg, locals, dsk, tgts, baks, fs) ==
    apply_animations_from(sys, cfg, locals,
                          [disk |-> dsk, target |-> tgts, backup |-> baks, obs |-> <<>>], fs, 1)

----------------------------------------------------------------------------
(* Randomizer, lines 382-422 *)

RECURSIVE EnabledOnly(_)
\* [entry for entry in seq if entry['enabled']]
EnabledOnly(seq) ==
    IF seq = <<>> THEN <<>>
    ELSE IF Head(seq).enabled THEN <<Head(seq)>> \o EnabledOnly(Tail(seq))
    ELSE EnabledOnly(Tail(seq))

\* get_active_sets without the filter on 'enabled'
get_all_sets(sets, cfg) == sets \o cfg.custom_sets

\* line 383
get_active_sets(sets, cfg) == EnabledOnly(sets \o cfg.custom_sets)

\* the slot value that is the bare filename, without the id of the set
SetSlotFilename(new_set, video_type) ==
    IF new_set[video_type] # "" THEN <<new_set[video_type]>> ELSE <<>>

\* lines 401-406: the slot value built from the chosen set's filename
SetSlotValue(new_set, video_type) ==
    IF new_set[video_type] # "" THEN <<new_set.id, new_set[video_type]>> ELSE <<>>

\* lines 394-411, with pick the value of random.randint(0, len(active) - 1) + 1
randomize_current_set(sets, cfg, pick) ==
    LET active == get_active_sets(sets, cfg)
    IN  IF Len(active) > 0
        THEN LET new_set == active[pick]
             IN  [cfg EXCEPT !.current_set = new_set.id,
                             !.boot = SetSlotValue(new_set, "boot"),
                             !.suspend = SetSlotValue(new_set, "suspend"),
                             !.throbber = SetSlotValue(new_set, "throbber")]
        ELSE [cfg EXCEPT !.current_set = "", !.boot = <<>>, !.suspend = <<>>, !.throbber = <<>>]

\* the ids of a list of animation entries
RECURSIVE IdsOf(_)
IdsOf(seq) == IF seq = <<>> THEN <<>> ELSE <<Head(seq).id>> \o IdsOf(Tail(seq))

RECURSIVE TargetsOf(_)
TargetsOf(seq) == IF seq = <<>> THEN <<>> ELSE <<Head(seq).target>> \o TargetsOf(Tail(seq))

\* line 418: anim['target'] == VIDEO_TARGETS[i] and anim['id'] not in config['shuffle_exclusions']
Eligible(anim_target, anim_id, i, cfg) ==
    anim_target = VIDEO_TARGETS[i] /\ anim_id \notin cfg.shuffle_exclusions

\* lines 416-419: the ids of the pool of video i
Pool(locals, cfg, i) ==
    LET all == locals \o cfg.downloads \o cfg.custom_animations
        ids == IdsOf(all)
        tgs == TargetsOf(all)
        keep == {k \in 1..Len(all) : Eligible(tgs[k], ids[k], i, cfg)}
        RECURSIVE Take(_)
        Take(k) == IF k > Len(all) THEN <<>>
                   ELSE IF k \in keep THEN <<ids[k]>> \o Take(k + 1) ELSE Take(k + 1)
    IN  Take(1)

\* lines 420-421: the new value of slot i; pick[i] is random.randint(0, len(pool) - 1) + 1
RandomSlot(locals, cfg, i, pick) ==
    LET pool == Pool(locals, cfg, i)
    IN  IF Len(pool) > 0 THEN pool[pick[i]] ELSE cfg[VIDEO_TYPES[i]]

\* lines 414-422
randomize_all(locals, cfg, pick) ==
    [cfg EXCEPT !.boot = RandomSlot(locals, cfg, 1, pick),
                !.suspend = RandomSlot(locals, cfg, 2, pick),
                !.throbber = RandomSlot(locals, cfg, 3, pick),
                !.current_set = ""]

----------------------------------------------------------------------------
(* Local Scanner, load_local_animations lines 232-281 *)

\* A directory of ANIMATIONS_PATH: its name and its config.json, which is
\* missing ("none"), unparsable ("bad") or a dict ("ok") with the keys `keys`.
NoConfig == [state |-> "none", keys |-> {}, enabled |-> TRUE, enable |-> <<>>,
             boot |-> "", suspend |-> "", throbber |-> ""]

\* os.path.exists(os.path.join(ANIMATIONS_PATH, directory, filename))
DirFileExists(dsk, directory, filename) == PathExists(dsk, LocalPath(<<directory, filename>>))

\* lines 240-256: whether the directory is taken as a set
is_set(sys, dsk, dir) ==
    IF dir.cfg.state # "none"
    THEN dir.cfg.state = "ok"
    ELSE \E i \in 1..3 : DirFileExists(dsk, dir.name, VIDEOS_NAMES(sys)[i])

\* json.load result: {} unless the file was parsed
AnimConfigKeys(dir) == IF dir.cfg.state = "ok" THEN dir.cfg.keys ELSE {}

\* lines 264-267: the filename of one slot
SlotFilename(sys, dsk, dir, i) ==
    LET anim_type == VIDEO_TYPES[i]
        default == VIDEOS_NAMES(sys)[i]
    IN  IF anim_type \in AnimConfigKeys(dir) THEN dir.cfg[anim_type]
        ELSE IF DirFileExists(dsk, dir.name, default) THEN default
        ELSE ""

\* lines 258-261 and 267
LocalSet(sys, dsk, dir) ==
    [id |-> dir.name,
     enabled |-> IF "enabled" \in AnimConfigKeys(dir) THEN dir.cfg.enabled ELSE TRUE,
     enable |-> <<>>,
     boot |-> SlotFilename(sys, dsk, dir, 1),
     suspend |-> SlotFilename(sys, dsk, dir, 2),
     throbber |-> SlotFilename(sys, dsk, dir, 3)]

RECURSIVE DirAnimations(_, _, _, _)
\* lines 268-276: the entries of one directory, in slot order from slot i
DirAnimations(sys, dsk, dir, i) ==
    IF i > 3 THEN <<>>
    ELSE LET filename == SlotFilename(sys, dsk, dir, i)
         IN  (IF filename # ""
              THEN <<[id |-> <<dir.name, filename>>, target |-> VIDEO_TARGETS[i]]>>
              ELSE <<>>) \o DirAnimations(sys, dsk, dir, i + 1)

RECURSIVE load_local_animations(_, _, _)
\* the whole scan: [animations, sets]
load_local_animations(sys, dsk, ds) ==
    IF ds = <<>> THEN [animations |-> <<>>, sets |-> <<>>]
    ELSE LET rest == load_local_animations(sys, dsk, Tail(ds))
             dir == Head(ds)
         IN  IF ~is_set(sys, dsk, dir) THEN rest
             ELSE [animations |-> DirAnimations(sys, dsk, dir, 1) \o rest.animations,
                   sets |-> <<LocalSet(sys, dsk, dir)>> \o rest.sets]

----------------------------------------------------------------------------
(* The universe of a run: identifiers, directories, files *)

\* the ids of the remote repository of which a download is recorded
NumRepoIds == 1

RepoId(k) == <<"d" \o ToString(k)>>

RepoIds == {RepoId(k) : k \in 1..NumRepoIds}

D1 == RepoId(1)

\* an id found in no pool
Unknown == <<"zz">>

SetA == "setA"

\* the ids the scan gives for the default files of SetA
LocalBoot(sys) == <<SetA, VIDEOS_NAMES(sys)[1]>>
LocalSuspend(sys) == <<SetA, VIDEOS_NAMES(sys)[2]>>

\* the file the custom animation records point to
CustomPath == [root |-> "custom", id |-> <<"mine.webm">>, ext |-> ""]

Paths(sys) ==
    {DownloadPath(d) : d \in RepoIds}
        \cup {CustomPath, LocalPath(LocalBoot(sys)), LocalPath(LocalSuspend(sys))}

\* identifiers a caller may pass
AnimIds(sys) == {<<>>, LocalBoot(sys), LocalSuspend(sys), Unknown} \cup RepoIds

\* the record of the handler run last: hadSelection tells whether a slot held
\* an identifier when it was called
Called(name, shuffle, cfg) ==
    [name |-> name, shuffle |-> shuffle,
     hadSelection |-> \E i \in 1..3 : cfg[VIDEO_TYPES[i]] # <<>>,
     arg |-> <<>>, raised |-> FALSE]

NoOp == [name |-> "", shuffle |-> FALSE, hadSelection |-> FALSE, arg |-> <<>>, raised |-> FALSE]

\* the record of a handler called with the arguments arg, which raised or not
CalledWith(name, arg, raised, cfg) ==
    [Called(name, FALSE, cfg) EXCEPT !.arg = arg, !.raised = raised]

DefaultConfig ==
    [boot |-> <<>>, suspend |-> <<>>, throbber |-> <<>>, randomize |-> "",
     current_set |-> "", downloads |-> <<>>, custom_animations |-> <<>>,
     custom_sets |-> <<>>, shuffle_exclusions |-> {}]

\* What is at CONFIG_PATH: no file, a file json.load rejects, or a stored dict
NoFile == [state |-> "none", data |-> DefaultConfig]
BadFile == [state |-> "bad", data |-> DefaultConfig]
StoredConfig(cfg) == [state |-> "ok", data |-> cfg]

\* save_config, lines 224-229: open(CONFIG_PATH, 'w') empties the file and
\* json.dump fills it; a write that raises leaves a file json.load rejects
save_config(cfg, saved) == IF saved THEN StoredConfig(cfg) ELSE BadFile

\* no get_steamdeckrepo call made yet
NoFetch == [responses |-> <<>>, attempts |-> 0, outcome |-> "", status |-> 0, entries |-> <<>>]

\* the catalog variables of a plugin whose startup is over and which fetched nothing
NetIdle ==
    /\ animation_cache = <<>>
    /\ unloaded = FALSE
    /\ inflight = <<>>
    /\ pc = "done"
    /\ trace = <<>>
    /\ fetched = NoFetch

\* the disk with every file of Paths present except those of missing
InitDisk(sys, missing) ==
    [p \in Paths(sys) |-> IF p \in missing THEN NoData ELSE DataOf(p)]

\* a download record for every repository id
InitDownloads == [k \in 1..NumRepoIds |-> [id |-> RepoId(k), target |-> "boot"]]

\* custom records that reuse the id of a download and the id of a scanned
\* entry, so that every order of the three pools gives a different path
InitCustomAnimations(sys) ==
    <<[id |-> D1, path |-> CustomPath, target |-> "boot"],
      [id |-> LocalBoot(sys), path |-> CustomPath, target |-> "boot"]>>

CustomSet(e) ==
    [id |-> "mine", enabled |-> e, enable |-> <<>>, boot |-> "b.webm", suspend |-> "", throbber |-> ""]

DisabledConfig == [NoConfig EXCEPT !.state = "ok", !.keys = {"enabled"}, !.enabled = FALSE]

\* The sets a run starts with: SetA found enabled by the scan together with an
\* enabled custom set, or SetA disabled by its config.json and no custom set
\* (no set is then enabled)
InitSets ==
    {[dirs |-> <<[name |-> SetA, cfg |-> NoConfig]>>, custom_sets |-> <<CustomSet(TRUE)>>],
     [dirs |-> <<[name |-> SetA, cfg |-> DisabledConfig]>>, custom_sets |-> <<>>]}

\* what Steam ships under steamui/movies (uioverrides starts empty)
InitTargets(sys) ==
    IF sys = "Windows"
    THEN {[i \in 1..3 |-> RegularFile(Vendor)], [i \in 1..3 |-> Absent]}
    ELSE {[i \in 1..3 |-> Absent]}

\* The state after startup has loaded the config and scanned the animations,
\* for the handlers
Init ==
    /\ system \in {"Linux", "Windows"}
    /\ disk = InitDisk(system, {})
    /\ \E sets \in InitSets :
          /\ dirs = sets.dirs
          /\ config = [DefaultConfig EXCEPT !.downloads = InitDownloads,
                                            !.custom_sets = sets.custom_sets]
    /\ local_animations = load_local_animations(system, disk, dirs).animations
    /\ local_sets = load_local_animations(system, disk, dirs).sets
    /\ target = [i \in 1..3 |-> IF system = "Windows" THEN RegularFile(Vendor) ELSE Absent]
    /\ backup = [i \in 1..3 |-> NoData]
    /\ shipped = [i \in 1..3 |-> target[i] # Absent]
    /\ last = <<>>
    /\ op = NoOp
    /\ config_file = StoredConfig(config)
    /\ NetIdle

\* The states from which single apply_animation calls are made: every pool
\* filled, one source file possibly missing (a stale record)
InitActivate ==
    /\ system \in {"Linux", "Windows"}
    /\ dirs = <<[name |-> SetA, cfg |-> NoConfig]>>
    /\ \E missing \in {{}, {DownloadPath(D1)}, {CustomPath}} : disk = InitDisk(system, missing)
    /\ config = [DefaultConfig EXCEPT !.downloads = InitDownloads,
                                      !.custom_animations = InitCustomAnimations(system)]
    /\ local_animations = load_local_animations(system, InitDisk(system, {}), dirs).animations
    /\ local_sets = load_local_animations(system, InitDisk(system, {}), dirs).sets
    /\ target \in InitTargets(system)
    /\ backup = [i \in 1..3 |-> NoData]
    /\ shipped = [i \in 1..3 |-> target[i] # Absent]
    /\ last = <<>>
    /\ op = NoOp
    /\ config_file = StoredConfig(config)
    /\ NetIdle

----------------------------------------------------------------------------
(* Operations *)

\* The answers of the filesystem that one call can meet: an operation the
\* call does not reach answers "ok".
FaultsFor(sys, cfg, locals, dsk, tgt, bak, i, anim_id) ==
    LET supported == is_video_supported(sys, VIDEO_TYPES[i])
        resolves == anim_id # <<>> /\ ~ResolutionFails(dsk, ResolvePath(cfg, locals, anim_id))
        B == IF supported /\ UseSteamui(sys) /\ NeedsBackup(bak, dsk, tgt) THEN CopyResults ELSE {"ok"}
        R == IF supported /\ NeedsRemove(dsk, tgt) THEN Results ELSE {"ok"}
        S == IF supported /\ resolves THEN Results ELSE {"ok"}
        C == IF supported /\ FallsBackToCopy(sys) /\ (anim_id = <<>> \/ resolves)
             THEN CopyResults ELSE {"ok"}
    IN  {f \in [backup : B, remove : R, symlink : S, copy : C] :
            resolves /\ f.symlink = "ok" /\ f.remove = "ok" => f.copy = "ok"}

\* Source files are only read by the runs explored here: a copy that would go
\* through a link left at target_path (after a failed remove) into the file
\* it points to is not among the answers drawn.
LeavesSources(dsk, r) == r.disk = dsk

\* One call apply_animation(video, anim_id)
ApplyAnimation ==
    \E i \in 1..3, anim_id \in AnimIds(system) :
        \E f \in FaultsFor(system, config, local_animations, disk, target[i], backup[i], i, anim_id) :
            \E r \in {apply_animation(system, config, local_animations, disk, target[i], backup[i],
                                       VIDEOS_NAMES(system)[i], anim_id, f)} :
                /\ LeavesSources(disk, r)
                /\ disk' = r.disk
                /\ target' = [target EXCEPT ![i] = r.tgt]
                /\ backup' = [backup EXCEPT ![i] = r.bak]
                /\ last' = <<Observation(i, anim_id, disk, f, r)>>
                /\ op' = Called("apply_animation", FALSE, config)
                /\ UNCHANGED <<system, config, local_animations, local_sets, dirs, shipped>>
                /\ UNCHANGED <<config_file, netvars>>

\* The answers drawn for the i-th call of an apply_animations pass: the call
\* either meets no error or cannot make its link (and then its copy, where the
\* code copies, succeeds or writes nothing)
PassFaults(sys, cfg, locals, dsk, tgts, baks, i) ==
    {f \in FaultsFor(sys, cfg, locals, dsk, tgts[i], baks[i], i, cfg[VIDEO_TYPES[i]]) :
        /\ f.backup = "ok" /\ f.remove = "ok" /\ f.copy # "partial"
        /\ (f.symlink = "ok" => f.copy = "ok")}

\* save_config() then apply_animations() with the new config, the tail of
\* saveSettings and randomize.  save_config raises when the file cannot be
\* written (saved = FALSE): the handler stops there, the config dict changed.
SaveAndApply(cfg, saved) ==
    /\ config' = cfg
    /\ config_file' = save_config(cfg, saved)
    /\ IF saved
       THEN \E f1 \in PassFaults(system, cfg, local_animations, disk, target, backup, 1),
               f2 \in PassFaults(system, cfg, local_animations, disk, target, backup, 2),
               f3 \in PassFaults(system, cfg, local_animations, disk, target, backup, 3) :
               \E w \in {apply_animations(system, cfg, local_animations, disk, target, backup,
                                          <<f1, f2, f3>>)} :
                   /\ w.disk = disk
                   /\ disk' = w.disk
                   /\ target' = w.target
                   /\ backup' = w.backup
                   /\ last' = w.obs
       ELSE /\ last' = <<>>
            /\ UNCHANGED <<disk, target, backup>>
    /\ UNCHANGED <<system, local_animations, local_sets, dirs, shipped, netvars>>

\* the values a settings dict gives to slot i: none, an id of no pool, or an
\* animation of the slot's target
SettingIds(sys, i) == {<<>>, Unknown, IF VIDEO_TARGETS[i] = "boot" THEN D1 ELSE LocalSuspend(sys)}

\* the shuffle exclusions a settings dict may carry
ExclusionChoices(sys) == {{}, RepoIds \cup {LocalBoot(sys)}}

\* config.update(settings), line 568, for a settings dict with one key
UpdatedConfigs(sys, cfg) ==
    {[cfg EXCEPT ![VIDEO_TYPES[i]] = v] : <<i, v>> \in {<<j, w>> \in (1..3) \X AnimIds(sys) : w \in SettingIds(sys, j)}}
        \cup {[cfg EXCEPT !.shuffle_exclusions = x] : x \in ExclusionChoices(sys)}

\* Plugin.saveSettings, lines 565-573
SaveSettings ==
    \E cfg \in UpdatedConfigs(system, config), saved \in BOOLEAN :
        /\ SaveAndApply(cfg, saved)
        /\ op' = Called("saveSettings", FALSE, config)

\* the values random.randint can give for the pools of the three slots
Picks(locals, cfg) ==
    {pick \in [1..3 -> 1..(Len(locals) + Len(cfg.downloads) + Len(cfg.custom_animations))] :
        \A i \in 1..3 : pick[i] <= Len(Pool(locals, cfg, i)) \/ pick[i] = 1}

\* Plugin.randomize, lines 585-596
Randomize ==
    \E shuffle \in BOOLEAN, saved \in BOOLEAN :
        /\ op' = Called("randomize", shuffle, config)
        /\ IF shuffle
           THEN \E pick \in Picks(local_animations, config) :
                   SaveAndApply(randomize_all(local_animations, config, pick), saved)
           ELSE \E pick \in 1..(Len(local_sets) + Len(config.custom_sets) + 1) :
                   /\ pick <= Len(get_active_sets(local_sets, config)) \/ pick = 1
                   /\ SaveAndApply(randomize_current_set(local_sets, config, pick), saved)

----------------------------------------------------------------------------
(* Remote catalog: get_steamdeckrepo and update_cache, lines 108-160 *)

REQUEST_RETRIES == 5

\* the 'type' values of the posts the repository serves
PostTypes == {"boot_video", "suspend_video", "other"}

\* line 150: 'suspend' if entry['type'] == 'suspend_video' else 'boot'
PostTarget(type) == IF type = "suspend_video" THEN "suspend" ELSE "boot"

RECURSIVE ParsePosts(_)
\* lines 137-152: the entries built from the posts of a body, other types dropped
ParsePosts(posts) ==
    IF posts = <<>> THEN <<>>
    ELSE (IF Head(posts).type \in {"suspend_video", "boot_video"}
          THEN <<[id |-> Head(posts).id, target |-> PostTarget(Head(posts).type)]>>
          ELSE <<>>) \o ParsePosts(Tail(posts))

\* the result of a get_steamdeckrepo call that ended at the given attempt
Fetched(attempts, outcome, status, entries) ==
    [attempts |-> attempts, outcome |-> outcome, status |-> status, entries |-> entries]

RECURSIVE get_steamdeckrepo_from(_, _)
\* the loop of lines 121-136 from attempt i on; responses[i] is what the
\* repository answers to the i-th request
get_steamdeckrepo_from(responses, i) ==
    IF i > REQUEST_RETRIES
    THEN Fetched(i - 1, "RetriesExceeded", responses[i - 1].status, <<>>)
    ELSE LET res == responses[i]
         IN  IF res.status = 200
             THEN IF res.valid
                  THEN Fetched(i, "ok", 200, ParsePosts(res.posts))
                  ELSE Fetched(i, "BadBody", 200, <<>>)
             ELSE IF res.status = 429 THEN Fetched(i, "RateLimit", 429, <<>>)
             ELSE get_steamdeckrepo_from(responses, i + 1)

RECURSIVE get_steamdeckrepo_asking_again(_, _)
\* the loop when a 429 is answered by another request
get_steamdeckrepo_asking_again(responses, i) ==
    IF i > REQUEST_RETRIES
    THEN Fetched(i - 1, "RetriesExceeded", responses[i - 1].status, <<>>)
    ELSE IF responses[i].status = 200
         THEN IF responses[i].valid
              THEN Fetched(i, "ok", 200, ParsePosts(responses[i].posts))
              ELSE Fetched(i, "BadBody", 200, <<>>)
         ELSE get_steamdeckrepo_asking_again(responses, i + 1)

\* get_steamdeckrepo that goes on after a 429
get_steamdeckrepo_no_backoff(responses) == get_steamdeckrepo_asking_again(responses, 1)

\* lines 119-155
get_steamdeckrepo(responses) == get_steamdeckrepo_from(responses, 1)

\* update_cache that adds the fetched entries to those it holds
update_cache_merging(cache, r) == IF r.outcome = "ok" THEN cache \o r.entries ELSE cache

\* lines 158-160: the assignment happens only when get_steamdeckrepo returned
update_cache(cache, r) == IF r.outcome = "ok" THEN r.entries ELSE cache

\* what is recorded of a get_steamdeckrepo call
FetchRecord(responses, r) ==
    [responses |-> responses, attempts |-> r.attempts, outcome |-> r.outcome,
     status |-> r.status, entries |-> r.entries]

\* Bodies the repository may serve
PostsA == [k \in 1..NumRepoIds |-> [id |-> RepoId(k), type |-> "boot_video"]]
              \o <<[id |-> <<"post">>, type |-> "other"]>>
PostsB == <<[id |-> <<"s1">>, type |-> "suspend_video"], [id |-> D1, type |-> "boot_video"]>>

Response(status, valid, posts) == [status |-> status, valid |-> valid, posts |-> posts]

\* responses after which the code asks again
RetryResponses == {Response(500, FALSE, <<>>), Response(503, FALSE, <<>>)}

\* responses that end a call: a 200 with a body that parses or not, a 429
FinalResponses ==
    {Response(200, TRUE, PostsA), Response(200, TRUE, PostsB),
     Response(200, FALSE, <<>>), Response(429, FALSE, <<>>)}

\* one more response than the code may ask for
MaxResponses == REQUEST_RETRIES + 1

\* what the repository answers to the successive requests of one call: some
\* retry responses, then possibly a final one, 503 from then on
ResponseSeqs ==
    UNION {{[i \in 1..MaxResponses |->
                IF i <= k THEN pre[i] ELSE IF i = k + 1 THEN fin ELSE Response(503, FALSE, <<>>)] :
            pre \in [1..k -> RetryResponses],
            fin \in IF k < MaxResponses THEN FinalResponses ELSE {Response(503, FALSE, <<>>)}} :
           k \in 0..MaxResponses}

\* Plugin.updateAnimationCache, lines 507-513
UpdateAnimationCache ==
    \E responses \in ResponseSeqs :
        \E r \in {get_steamdeckrepo(responses)} :
            /\ animation_cache' = update_cache(animation_cache, r)
            /\ fetched' = FetchRecord(responses, r)
            /\ op' = Called("updateAnimationCache", FALSE, config)
            /\ UNCHANGED <<system, config, local_animations, local_sets, dirs, disk, target, backup,
                           shipped, last, config_file, unloaded, pc, trace, inflight>>

----------------------------------------------------------------------------
(* load_config and regenerate_downloads, lines 165-214 *)

\* os.listdir(DOWNLOADS_PATH): the ids of the .webm files, taken in the order
\* of the repository ids
DownloadedIds(dsk) ==
    LET present == {k \in 1..NumRepoIds : PathExists(dsk, DownloadPath(RepoId(k)))}
        RECURSIVE From(_)
        From(k) == IF k > NumRepoIds THEN <<>>
                   ELSE IF k \in present THEN <<RepoId(k)>> \o From(k + 1) ELSE From(k + 1)
    IN  From(1)

RECURSIVE CachedEntries(_, _)
\* lines 169-178: the cache entry of each id that has one
CachedEntries(cache, ids) ==
    IF ids = <<>> THEN <<>>
    ELSE (IF HasId(cache, Head(ids)) THEN <<cache[IndexOfId(cache, Head(ids), 1)]>> ELSE <<>>)
             \o CachedEntries(cache, Tail(ids))

\* lines 165-179, with the responses the repository gives if it is asked:
\* [downloads, cache, fetch (the get_steamdeckrepo result or NoFetch), raised]
regenerate_downloads(cache, dsk, responses) ==
    LET asks == Len(cache) = 0
        r == get_steamdeckrepo(responses)
        cache1 == IF asks THEN update_cache(cache, r) ELSE cache
    IN  [downloads |-> CachedEntries(cache1, DownloadedIds(dsk)),
         cache |-> cache1,
         fetch |-> IF asks THEN FetchRecord(responses, r) ELSE NoFetch,
         asked |-> asks,
         raised |-> asks /\ r.outcome # "ok"]

\* save_new, lines 197-202: regenerate_downloads then save_config, any
\* exception logged and dropped
save_new(cfg, file, cache, dsk, responses, saved) ==
    LET g == regenerate_downloads(cache, dsk, responses)
    IN  [config |-> IF g.raised THEN cfg ELSE [cfg EXCEPT !.downloads = g.downloads],
         file |-> IF g.raised THEN file
                  ELSE save_config([cfg EXCEPT !.downloads = g.downloads], saved),
         cache |-> g.cache, fetch |-> g.fetch, asked |-> g.asked]

\* lines 182-214: [config, file, cache, fetch, asked]
load_config(file, cache, dsk, responses, saved) ==
    IF file.state = "ok"
    THEN [config |-> file.data, file |-> file, cache |-> cache, fetch |-> NoFetch, asked |-> FALSE]
    ELSE save_new(DefaultConfig, file, cache, dsk, responses, saved)

----------------------------------------------------------------------------
(* Plugin.reloadConfiguration, lines 575-583 *)

\* a get_steamdeckrepo call answered at the first request
QuickResponses == {rs \in ResponseSeqs : rs[1] \in FinalResponses}

\* an answer with a body that parses
GoodResponses == CHOOSE rs \in QuickResponses : rs[1] = Response(200, TRUE, PostsA)

\* The answers load_config can meet: none matter when the file parses
LoadInputs(file) ==
    IF file.state = "ok" THEN {<<GoodResponses, TRUE>>} ELSE QuickResponses \X BOOLEAN

\* apply_animations() with the config cfg and the scanned entries locals
ApplyPass(cfg, locals) ==
    \E f1 \in PassFaults(system, cfg, locals, disk, target, backup, 1),
       f2 \in PassFaults(system, cfg, locals, disk, target, backup, 2),
       f3 \in PassFaults(system, cfg, locals, disk, target, backup, 3) :
       \E w \in {apply_animations(system, cfg, locals, disk, target, backup, <<f1, f2, f3>>)} :
           /\ w.disk = disk
           /\ disk' = w.disk
           /\ target' = w.target
           /\ backup' = w.backup
           /\ last' = w.obs

ReloadConfiguration ==
    \E in \in LoadInputs(config_file) :
        \E lc \in {load_config(config_file, animation_cache, disk, in[1], in[2])},
           scan \in {load_local_animations(system, disk, dirs)} :
            /\ config' = lc.config
            /\ config_file' = lc.file
            /\ animation_cache' = lc.cache
            /\ fetched' = IF lc.asked THEN lc.fetch ELSE fetched
            /\ local_animations' = scan.animations
            /\ local_sets' = scan.sets
            /\ ApplyPass(lc.config, scan.animations)
            /\ op' = CalledWith("reloadConfiguration", <<>>, Raised(last'[Len(last')].outcome), config)
            /\ UNCHANGED <<system, dirs, shipped, unloaded, pc, trace, inflight>>

----------------------------------------------------------------------------
(* Plugin.enableSet, lines 469-486 *)

\* json.dump(entry, f): the config.json that holds the keys of a set entry
JsonOfSet(entry) ==
    [state |-> "ok", keys |-> {"id", "enabled", "boot", "suspend", "throbber", "enable"},
     enabled |-> entry.enabled, enable |-> entry.enable,
     boot |-> entry.boot, suspend |-> entry.suspend, throbber |-> entry.throbber]

\* a config.json whose write was cut short
BadConfig == [NoConfig EXCEPT !.state = "bad"]

\* line 474 and line 481: entry['enable'] = enable
SetEnable(entry, enable) == [entry EXCEPT !.enable = <<enable>>]

\* the directory of ANIMATIONS_PATH with the name, 0 if none
DirIndex(ds, name) ==
    IF \E k \in 1..Len(ds) : ds[k].name = name
    THEN CHOOSE k \in 1..Len(ds) : ds[k].name = name
    ELSE 0

\* the ids a caller may pass: the scanned set, the custom set, a set that does not exist
SetIds == {SetA, "mine", "nope"}

\* written: whether the file the handler writes (the set's config.json, or
\* CONFIG_PATH for a custom set) could be written
EnableSet ==
    \E set_id \in SetIds, enable \in BOOLEAN, written \in BOOLEAN :
        LET k == IndexOfId(local_sets, set_id, 1)
            j == IndexOfId(config.custom_sets, set_id, 1)
            d == DirIndex(dirs, set_id)
        IN  /\ IF k # 0
               THEN /\ d # 0
                    /\ local_sets' = [local_sets EXCEPT ![k] = SetEnable(local_sets[k], enable)]
                    /\ dirs' = [dirs EXCEPT ![d].cfg =
                                   IF written THEN JsonOfSet(SetEnable(local_sets[k], enable))
                                   ELSE BadConfig]
                    /\ UNCHANGED <<config, config_file>>
               ELSE IF j # 0
               THEN /\ config' = [config EXCEPT !.custom_sets[j] = SetEnable(config.custom_sets[j], enable)]
                    /\ config_file' = save_config(config', written)
                    /\ UNCHANGED <<local_sets, dirs>>
               ELSE /\ written
                    /\ UNCHANGED <<config, config_file, local_sets, dirs>>
            /\ op' = CalledWith("enableSet", <<set_id, enable>>, (k # 0 \/ j # 0) /\ ~written, config)
            /\ last' = <<>>
            /\ UNCHANGED <<system, local_animations, disk, target, backup, shipped, netvars>>

----------------------------------------------------------------------------
(* Plugin.downloadAnimation and Plugin.deleteAnimation, lines 531-563 *)

\* what the download request meets: a 200 with the data, another status, or
\* an error of the connection
NetResults == {"ok", "status", "error"}

\* lines 284-288: whether find_cached_animation finds the id
find_cached_animation(cache, anim_id) == HasId(cache, anim_id)

\* lines 545-546: open(download_file, 'wb') and f.write(data); a write that
\* raises (or is abandoned) has created nothing or left a truncated file
WriteDownload(dsk, anim_id, wr) ==
    IF wr = "none" THEN dsk
    ELSE [dsk EXCEPT ![DownloadPath(anim_id)] =
             IF wr = "ok" THEN DataOf(DownloadPath(anim_id)) ELSE Partial]

\* lines 531-551: [config, file, disk, raised]
downloadAnimation(cfg, file, cache, dsk, anim_id, net, wr, saved) ==
    LET same == [config |-> cfg, file |-> file, disk |-> dsk, raised |-> FALSE]
        added == [cfg EXCEPT !.downloads = Append(@, cache[IndexOfId(cache, anim_id, 1)])]
    IN  IF HasId(cfg.downloads, anim_id) THEN same
        ELSE IF ~find_cached_animation(cache, anim_id) THEN [same EXCEPT !.raised = TRUE]
        ELSE IF net # "ok" THEN [same EXCEPT !.raised = TRUE]
        ELSE IF wr # "ok"
        THEN [same EXCEPT !.disk = WriteDownload(dsk, anim_id, wr), !.raised = TRUE]
        ELSE [config |-> added, file |-> save_config(added, saved),
              disk |-> WriteDownload(dsk, anim_id, wr), raised |-> ~saved]

\* the download list left as it is
KeepDownloads(downloads, anim_id) == downloads

\* line 556: [entry for entry in config['downloads'] if entry['id'] != anim_id]
RemainingDownloads(downloads, anim_id) == SelectSeq(downloads, LAMBDA entry : entry.id # anim_id)

\* lines 553-563: [config, file, disk, raised]
deleteAnimation(cfg, file, dsk, anim_id, saved, removed) ==
    LET cfg1 == [cfg EXCEPT !.downloads = RemainingDownloads(@, anim_id)]
        there == PathExists(dsk, DownloadPath(anim_id))
    IN  IF ~saved
        THEN [config |-> cfg1, file |-> save_config(cfg1, saved), disk |-> dsk, raised |-> TRUE]
        ELSE [config |-> cfg1, file |-> save_config(cfg1, saved),
              disk |-> IF there /\ removed = "ok"
                       THEN [dsk EXCEPT ![DownloadPath(anim_id)] = NoData] ELSE dsk,
              raised |-> there /\ removed # "ok"]

\* the ids a caller may pass
DownloadIds == RepoIds \cup {Unknown}

\* the answers a downloadAnimation call can meet: those of the steps the call
\* does not reach are "ok"
DownloadInputs(cfg, cache, anim_id) ==
    {in \in NetResults \X CopyResults \X BOOLEAN :
        /\ (HasId(cfg.downloads, anim_id) \/ ~find_cached_animation(cache, anim_id) => in[1] = "ok")
        /\ (in[1] # "ok" => in[2] = "ok")
        /\ (in[2] # "ok" => in[3])}

DownloadAnimation ==
    \E anim_id \in DownloadIds :
        \E in \in DownloadInputs(config, animation_cache, anim_id) :
            \E r \in {downloadAnimation(config, config_file, animation_cache, disk, anim_id,
                                        in[1], in[2], in[3])} :
                /\ config' = r.config
                /\ config_file' = r.file
                /\ disk' = r.disk
                /\ op' = CalledWith("downloadAnimation", <<anim_id>>, r.raised, config)
                /\ last' = <<>>
                /\ UNCHANGED <<system, local_animations, local_sets, dirs, target, backup, shipped, netvars>>

\* the answers a deleteAnimation call can meet
DeleteInputs(dsk, anim_id) ==
    {in \in BOOLEAN \X Results :
        ~in[1] \/ ~PathExists(dsk, DownloadPath(anim_id)) => in[2] = "ok"}

DeleteAnimation ==
    \E anim_id \in DownloadIds :
        \E in \in DeleteInputs(disk, anim_id) :
            \E r \in {deleteAnimation(config, config_file, disk, anim_id, in[1], in[2])} :
                /\ config' = r.config
                /\ config_file' = r.file
                /\ disk' = r.disk
                /\ op' = CalledWith("deleteAnimation", <<anim_id>>, r.raised, config)
                /\ last' = <<>>
                /\ UNCHANGED <<system, local_animations, local_sets, dirs, target, backup, shipped, netvars>>

\* One call apply_animation(BOOT_VIDEO, anim_id) for an id that is or was a
\* download, the filesystem raising no error
ActivateDownload ==
    \E anim_id \in DownloadIds :
        \E r \in {apply_animation(system, config, local_animations, disk, target[1], backup[1],
                                   VIDEOS_NAMES(system)[1], anim_id, NoFaults)} :
            /\ disk' = r.disk
            /\ target' = [target EXCEPT ![1] = r.tgt]
            /\ backup' = [backup EXCEPT ![1] = r.bak]
            /\ last' = <<Observation(1, anim_id, disk, NoFaults, r)>>
            /\ op' = CalledWith("apply_animation", <<anim_id>>, Raised(r.outcome), config)
            /\ UNCHANGED <<system, config, local_animations, local_sets, dirs, shipped>>
            /\ UNCHANGED <<config_file, netvars>>

\* A started plugin whose cache holds the entries of body A, with the
\* downloads recorded that are on disk, and custom records or none
InitDownloaded ==
    /\ system \in {"Linux", "Windows"}
    /\ dirs = <<[name |-> SetA, cfg |-> NoConfig]>>
    /\ disk = InitDisk(system, {})
    /\ \E custom \in {<<>>, InitCustomAnimations(system)} :
          config = [DefaultConfig EXCEPT !.downloads = InitDownloads, !.custom_animations = custom]
    /\ local_animations = load_local_animations(system, disk, dirs).animations
    /\ local_sets = load_local_animations(system, disk, dirs).sets
    /\ target = [i \in 1..3 |-> IF system = "Windows" THEN RegularFile(Vendor) ELSE Absent]
    /\ backup = [i \in 1..3 |-> NoData]
    /\ shipped = [i \in 1..3 |-> target[i] # Absent]
    /\ last = <<>>
    /\ op = NoOp
    /\ config_file = StoredConfig(config)
    /\ animation_cache = update_cache(<<>>, get_steamdeckrepo(GoodResponses))
    /\ fetched = FetchRecord(GoodResponses, get_steamdeckrepo(GoodResponses))
    /\ unloaded = FALSE
    /\ inflight = <<>>
    /\ pc = "done"
    /\ trace = <<>>

----------------------------------------------------------------------------
(* Plugin._main and Plugin._unload, lines 598-652 *)

\* the values of config['randomize'] a stored config may hold
ShuffleModes == {"", "all", "set"}

\* The plugin constructed and not started: the globals of lines 112-116, with
\* the files a previous run may have left (a config or none, the downloads,
\* the scanned directory)
InitStartup ==
    /\ system \in {"Linux", "Windows"}
    /\ dirs = <<[name |-> SetA, cfg |-> NoConfig]>>
    /\ disk = InitDisk(system, {})
    /\ config = DefaultConfig
    /\ config_file \in {NoFile, BadFile}
           \cup {StoredConfig([DefaultConfig EXCEPT !.downloads = InitDownloads, !.randomize = m,
                                                    !.boot = D1]) : m \in ShuffleModes}
    /\ local_animations = <<>>
    /\ local_sets = <<>>
    /\ target = [i \in 1..3 |-> IF system = "Windows" THEN RegularFile(Vendor) ELSE Absent]
    /\ backup = [i \in 1..3 |-> NoData]
    /\ shipped = [i \in 1..3 |-> target[i] # Absent]
    /\ last = <<>>
    /\ op = NoOp
    /\ animation_cache = <<>>
    /\ fetched = NoFetch
    /\ unloaded = FALSE
    /\ inflight = <<>>
    /\ pc = "start"
    /\ trace = <<>>

\* lines 605-621: os.makedirs, load_config(), load_local_animations()
StartupLoad ==
    /\ pc = "start"
    /\ \E made \in BOOLEAN :
          IF ~made
          THEN /\ pc' = "failed"
               /\ trace' = trace \o <<"makedirs">>
               /\ op' = CalledWith("_main", <<>>, TRUE, config)
               /\ UNCHANGED <<config, config_file, animation_cache, fetched,
                              local_animations, local_sets>>
          ELSE \E in \in LoadInputs(config_file) :
                  \E lc \in {load_config(config_file, animation_cache, disk, in[1], in[2])},
                     scan \in {load_local_animations(system, disk, dirs)} :
                      /\ config' = lc.config
                      /\ config_file' = lc.file
                      /\ animation_cache' = lc.cache
                      /\ fetched' = IF lc.asked THEN lc.fetch ELSE fetched
                      /\ local_animations' = scan.animations
                      /\ local_sets' = scan.sets
                      /\ pc' = "loaded"
                      /\ trace' = trace \o <<"makedirs", "load_config">>
                                        \o (IF lc.asked THEN <<"fetch">> ELSE <<>>) \o <<"scan">>
                      /\ op' = CalledWith("_main", <<>>, FALSE, config)
    /\ UNCHANGED <<system, dirs, disk, target, backup, shipped, last, unloaded, inflight>>

\* lines 623-636: the persisted shuffle mode, then apply_animations()
StartupActivate ==
    /\ pc = "loaded"
    /\ \E cfg \in IF config.randomize = "all"
                  THEN {randomize_all(local_animations, config, pick) :
                            pick \in Picks(local_animations, config)}
                  ELSE IF config.randomize = "set"
                  THEN {randomize_current_set(local_sets, config, pick) :
                            pick \in 1..(IF get_active_sets(local_sets, config) = <<>> THEN 1
                                          ELSE Len(get_active_sets(local_sets, config)))}
                  ELSE {config} :
          /\ config' = cfg
          /\ ApplyPass(cfg, local_animations)
    /\ pc' = IF Raised(last'[Len(last')].outcome) THEN "failed" ELSE "sleeping"
    /\ trace' = trace \o (IF config.randomize \in {"all", "set"} THEN <<"randomize">> ELSE <<>>)
                      \o <<"activate">>
    /\ op' = CalledWith("_main", <<>>, Raised(last'[Len(last')].outcome), config)
    /\ UNCHANGED <<system, local_animations, local_sets, dirs, shipped, config_file,
                   animation_cache, unloaded, fetched, inflight>>

\* lines 638-647: after asyncio.sleep(5.0), return if unloaded, else update_cache()
StartupRefresh ==
    /\ pc = "sleeping"
    /\ IF unloaded
       THEN /\ trace' = trace \o <<"sleep", "return">>
            /\ op' = CalledWith("_main", <<>>, FALSE, config)
            /\ UNCHANGED <<animation_cache, fetched>>
       ELSE \E responses \in QuickResponses :
               \E r \in {get_steamdeckrepo(responses)} :
                   /\ animation_cache' = update_cache(animation_cache, r)
                   /\ fetched' = FetchRecord(responses, r)
                   /\ trace' = trace \o <<"sleep", "fetch">>
                   /\ op' = CalledWith("_main", <<>>, r.outcome # "ok", config)
    /\ pc' = "done"
    /\ UNCHANGED <<system, config, local_animations, local_sets, dirs, disk, target, backup,
                   shipped, last, config_file, unloaded, inflight>>

\* Plugin._unload, lines 649-652: the host may call it while _main is suspended
Unload ==
    /\ ~unloaded
    /\ pc # "done"
    /\ unloaded' = TRUE
    /\ UNCHANGED <<system, config, local_animations, local_sets, dirs, disk, target, backup,
                   shipped, last, op, config_file, animation_cache, pc, trace, fetched, inflight>>

----------------------------------------------------------------------------
(* Plugin.downloadAnimation as the event loop runs it: the call is suspended
   at `async with web.get(...)` (line 541) and resumed with the response, and
   other calls run in between *)

\* the calls that may be suspended on their request at one time
MaxInflight == 2

\* lines 534-540, up to the request: "return" when the id is recorded,
\* "raise" when the cache has no entry for it, else "await" with the entry
\* the call holds in anim
downloadAnimation_request(cfg, cache, anim_id) ==
    IF HasId(cfg.downloads, anim_id) THEN [step |-> "return", anim_id |-> anim_id, anim |-> <<>>]
    ELSE IF ~find_cached_animation(cache, anim_id)
    THEN [step |-> "raise", anim_id |-> anim_id, anim |-> <<>>]
    ELSE [step |-> "await", anim_id |-> anim_id, anim |-> <<cache[IndexOfId(cache, anim_id, 1)]>>]

\* lines 541-548, from the response on: [config, file, disk, raised]
downloadAnimation_response(cfg, file, dsk, call, net, wr, saved) ==
    LET same == [config |-> cfg, file |-> file, disk |-> dsk, raised |-> FALSE]
        added == [cfg EXCEPT !.downloads = Append(@, call.anim[1])]
    IN  IF net # "ok" THEN [same EXCEPT !.raised = TRUE]
        ELSE IF wr # "ok"
        THEN [same EXCEPT !.disk = WriteDownload(dsk, call.anim_id, wr), !.raised = TRUE]
        ELSE [config |-> added, file |-> save_config(added, saved),
              disk |-> WriteDownload(dsk, call.anim_id, wr), raised |-> ~saved]

\* the sequence without its k-th element
Without(seq, k) == SubSeq(seq, 1, k - 1) \o SubSeq(seq, k + 1, Len(seq))

\* A call of downloadAnimation runs up to its request: it returns, raises, or
\* is suspended
DownloadRequest ==
    \E anim_id \in DownloadIds :
        \E call \in {downloadAnimation_request(config, animation_cache, anim_id)} :
            /\ IF call.step = "await"
               THEN /\ Len(inflight) < MaxInflight
                    /\ inflight' = Append(inflight, call)
                    /\ op' = CalledWith("downloadAnimation", <<anim_id, "await">>, FALSE, config)
               ELSE /\ inflight' = inflight
                    /\ op' = CalledWith("downloadAnimation", <<anim_id, call.step>>,
                                        call.step = "raise", config)
            /\ last' = <<>>
            /\ UNCHANGED <<system, config, local_animations, local_sets, dirs, disk, target, backup,
                           shipped, config_file, animation_cache, unloaded, pc, trace, fetched>>

\* the answers a resumed call can meet
ResponseInputs ==
    {in \in NetResults \X CopyResults \X BOOLEAN :
        /\ (in[1] # "ok" => in[2] = "ok")
        /\ (in[2] # "ok" => in[3])}

\* The response of one suspended call arrives: the call runs to its end
DownloadResponse ==
    \E k \in 1..Len(inflight), in \in ResponseInputs :
        \E r \in {downloadAnimation_response(config, config_file, disk, inflight[k],
                                             in[1], in[2], in[3])} :
            /\ config' = r.config
            /\ config_file' = r.file
            /\ disk' = r.disk
            /\ inflight' = Without(inflight, k)
            /\ op' = CalledWith("downloadAnimation", <<inflight[k].anim_id, "resume">>, r.raised, config)
            /\ last' = <<>>
            /\ UNCHANGED <<system, local_animations, local_sets, dirs, target, backup, shipped,
                           animation_cache, unloaded, pc, trace, fetched>>

----------------------------------------------------------------------------
(* Custom sets and custom animations: remove_custom_set, remove_custom_animation
   (lines 386-391) and the four handlers, lines 450-467 and 488-505 *)

\* the list of custom sets left as it is
keep_custom_sets(custom_sets, set_id) == custom_sets

\* line 387: [entry for entry in config['custom_sets'] if entry['id'] != set_id]
remove_custom_set(custom_sets, set_id) ==
    SelectSeq(custom_sets, LAMBDA entry : entry.id # set_id)

\* line 391: [anim for anim in config['custom_animations'] if anim['id'] != anim_id]
remove_custom_animation(custom_animations, anim_id) ==
    SelectSeq(custom_animations, LAMBDA anim : anim.id # anim_id)

\* lines 453-454: the config after remove_custom_set and append
saveCustomSet(cfg, set_entry) ==
    [cfg EXCEPT !.custom_sets = Append(remove_custom_set(@, set_entry.id), set_entry)]

\* line 463
removeCustomSet(cfg, set_id) ==
    [cfg EXCEPT !.custom_sets = remove_custom_set(@, set_id)]

\* lines 491-492: the config after remove_custom_animation and append
saveCustomAnimation(cfg, anim_entry) ==
    [cfg EXCEPT !.custom_animations = Append(remove_custom_animation(@, anim_entry.id), anim_entry)]

\* line 501
removeCustomAnimation(cfg, anim_id) ==
    [cfg EXCEPT !.custom_animations = remove_custom_animation(@, anim_id)]

\* the set entries a caller may save: "mine" enabled or not, and another set
CustomSetEntries ==
    {CustomSet(TRUE), CustomSet(FALSE),
     [id |-> "other", enabled |-> TRUE, enable |-> <<>>, boot |-> "", suspend |-> "s.webm",
      throbber |-> ""]}

\* the animation entries a caller may save: the id of a download for either
\* target, and another id
CustomAnimations ==
    {[id |-> D1, path |-> CustomPath, target |-> "boot"],
     [id |-> D1, path |-> CustomPath, target |-> "suspend"],
     [id |-> <<"clip">>, path |-> CustomPath, target |-> "suspend"]}

\* The four handlers: op.arg holds the argument, and whether an entry with
\* its id was in the list when the handler was called
SaveCustomSet ==
    \E set_entry \in CustomSetEntries, saved \in BOOLEAN :
        /\ config' = saveCustomSet(config, set_entry)
        /\ config_file' = save_config(config', saved)
        /\ op' = CalledWith("saveCustomSet",
                            <<set_entry, HasId(config.custom_sets, set_entry.id)>>, ~saved, config)
        /\ last' = <<>>
        /\ UNCHANGED <<system, local_animations, local_sets, dirs, disk, target, backup, shipped, netvars>>

RemoveCustomSet ==
    \E set_id \in {e.id : e \in CustomSetEntries} \cup {"nope"}, saved \in BOOLEAN :
        /\ config' = removeCustomSet(config, set_id)
        /\ config_file' = save_config(config', saved)
        /\ op' = CalledWith("removeCustomSet",
                            <<set_id, HasId(config.custom_sets, set_id)>>, ~saved, config)
        /\ last' = <<>>
        /\ UNCHANGED <<system, local_animations, local_sets, dirs, disk, target, backup, shipped, netvars>>

SaveCustomAnimation ==
    \E anim_entry \in CustomAnimations, saved \in BOOLEAN :
        /\ config' = saveCustomAnimation(config, anim_entry)
        /\ config_file' = save_config(config', saved)
        /\ op' = CalledWith("saveCustomAnimation",
                            <<anim_entry, HasId(config.custom_animations, anim_entry.id)>>,
                            ~saved, config)
        /\ last' = <<>>
        /\ UNCHANGED <<system, local_animations, local_sets, dirs, disk, target, backup, shipped, netvars>>

RemoveCustomAnimation ==
    \E anim_id \in {e.id : e \in CustomAnimations} \cup {Unknown}, saved \in BOOLEAN :
        /\ config' = removeCustomAnimation(config, anim_id)
        /\ config_file' = save_config(config', saved)
        /\ op' = CalledWith("removeCustomAnimation",
                            <<anim_id, HasId(config.custom_animations, anim_id)>>, ~saved, config)
        /\ last' = <<>>
        /\ UNCHANGED <<system, local_animations, local_sets, dirs, disk, target, backup, shipped, netvars>>

----------------------------------------------------------------------------
(* The animations root as a user may have filled it *)

\* a second directory, which holds no video file
SetB == "setB"

\* a config.json that parses, with the keys given
OkConfig(keys, enabled, boot) ==
    [NoConfig EXCEPT !.state = "ok", !.keys = keys, !.enabled = enabled, !.boot = boot]

\* the config.json a directory may hold: none, one that does not parse, {},
\* {"enabled": false}, {"boot": "intro.webm"}, {"boot": ""}
ScanConfigs ==
    {NoConfig, BadConfig, OkConfig({}, TRUE, ""), OkConfig({"enabled"}, FALSE, ""),
     OkConfig({"boot"}, TRUE, "intro.webm"), OkConfig({"boot"}, TRUE, "")}

\* A started plugin that found the animations root empty, after which the
\* user made two directories: SetA with some of its default files, SetB with
\* none, each with a config.json or not
InitScan ==
    /\ system \in {"Linux", "Windows"}
    /\ \E ca \in ScanConfigs, cb \in ScanConfigs :
          dirs = <<[name |-> SetA, cfg |-> ca], [name |-> SetB, cfg |-> cb]>>
    /\ \E missing \in SUBSET {LocalPath(LocalBoot(system)), LocalPath(LocalSuspend(system))} :
          disk = InitDisk(system, missing)
    /\ config = DefaultConfig
    /\ config_file = StoredConfig(config)
    /\ local_animations = <<>>
    /\ local_sets = <<>>
    /\ target = [i \in 1..3 |-> IF system = "Windows" THEN RegularFile(Vendor) ELSE Absent]
    /\ backup = [i \in 1..3 |-> NoData]
    /\ shipped = [i \in 1..3 |-> target[i] # Absent]
    /\ last = <<>>
    /\ op = NoOp
    /\ NetIdle

Next == SaveSettings \/ Randomize

Spec == Init /\ [][Next]_vars

NextActivate == ApplyAnimation

SpecActivate == InitActivate /\ [][NextActivate]_vars

\* Enabling and disabling sets, rescans and random choices of a set
NextSets == EnableSet \/ ReloadConfiguration \/ Randomize

SpecSets == Init /\ [][NextSets]_vars

\* Downloads, deletions and activations
NextDownloads == DownloadAnimation \/ DeleteAnimation \/ ActivateDownload

SpecDownloads == InitDownloaded /\ [][NextDownloads]_vars

\* Startup, with the host unloading the plugin at any moment
NextStartup == StartupLoad \/ StartupActivate \/ StartupRefresh \/ Unload

SpecStartup == InitStartup /\ [][NextStartup]_vars

\* Rescans of the animations root
NextScan == ReloadConfiguration

SpecScan == InitScan /\ [][NextScan]_vars

\* Overlapping downloadAnimation calls, and deleteAnimation calls between them
NextOverlap == DownloadRequest \/ DownloadResponse \/ DeleteAnimation

SpecOverlap == InitDownloaded /\ [][NextOverlap]_vars

\* The handlers of the custom sets and the custom animations
NextCustom == SaveCustomSet \/ RemoveCustomSet \/ SaveCustomAnimation \/ RemoveCustomAnimation

SpecCustom == Init /\ [][NextCustom]_vars

\* Catalog refreshes of a started plugin
NextCatalog == UpdateAnimationCache

SpecCatalog == Init /\ [][NextCatalog]_vars

----------------------------------------------------------------------------
(* Properties *)

\* the most recent apply_animation call: the files are as it left them
LastCall == last[Len(last)]

\* the call was not skipped as unsupported on the platform
Attempted(o) == o.outcome # "skipped"

\* the identifier of the call resolved to a file that existed
Resolved(o) == o.anim_id # <<>> /\ o.path # NoPath /\ o.source # NoData

\* the filesystem raised no error in the call; a link that cannot be made
\* counts as an error only where links need no privilege (not on Windows)
Nominal(o) ==
    /\ o.faults.backup = "ok" /\ o.faults.remove = "ok" /\ o.faults.copy = "ok"
    /\ (o.faults.symlink = "ok" \/ system = "Windows")

\* target_path is a link to the resolved source or a complete copy of it
LinkOrCopyOf(tgt, o) == tgt = SymLink(o.path) \/ tgt = RegularFile(o.source)

\* C1: in an apply_animations pass (run by saveSettings and randomize), when the
\* call for one slot raises NotFoundError or ActivationIOError, every slot
\* after it is still attempted.
C1_EverySlotAttempted ==
    op.name \in {"saveSettings", "randomize"} =>
        \A k \in 1..Len(last) :
            Raised(last[k].outcome) =>
                \A j \in (last[k].video + 1)..3 : \E m \in 1..Len(last) : last[m].video = j

\* C2: after an attempted apply_animation call returns or raises, whatever the
\* filesystem answered, target_path is absent, or a link to / complete copy of
\* the source resolved for the identifier just requested, or the restored
\* backup; never a truncated file nor what an earlier activation left.
C2_TargetInOneOfThreeStates ==
    last # <<>> /\ Attempted(LastCall) =>
        LET o == LastCall
            tgt == target[o.video]
        IN  \/ tgt = Absent
            \/ Resolved(o) /\ LinkOrCopyOf(tgt, o)
            \/ backup[o.video] # NoData /\ tgt = RegularFile(backup[o.video])

C4_BackupNeverRewritten ==
    [][\A i \in 1..3 : backup[i] # NoData => backup'[i] = backup[i]]_vars

\* reached: a call made while the backup existed, which removed what was at
\* target_path and put the requested animation there
C4_Witness ==
    /\ last # <<>> /\ Attempted(LastCall) /\ LastCall.outcome = "ok"
    /\ ~LastCall.backupMade /\ backup[LastCall.video] = Vendor
    /\ Resolved(LastCall) /\ target[LastCall.video] = SymLink(LastCall.path)

\* C5: whenever a complete .backup file exists for a slot, its content is the
\* vendor file that was at target_path before the first activation; it never
\* holds a user-selected animation.
C5_BackupIsVendorFile ==
    \A i \in 1..3 : backup[i] \notin {NoData, Partial} => backup[i] = Vendor

\* C6: with the filesystem raising no error, apply_animation(video, '') right
\* after a successful non-empty activation of the same video restores the
\* vendor file when a backup existed at the call, and leaves nothing at
\* target_path when no backup existed and Steam shipped no file there.
C6_EmptyRestoresVendorOrNothing ==
    [][(/\ op.name = "apply_animation" /\ op'.name = "apply_animation"
        /\ last[1].anim_id # <<>> /\ last[1].outcome = "ok"
        /\ last'[1].video = last[1].video /\ last'[1].anim_id = <<>>
        /\ Attempted(last'[1]) /\ Nominal(last'[1]))
       => LET v == last'[1].video
          IN  /\ (backup[v] # NoData => target'[v] = RegularFile(Vendor))
              /\ (backup[v] = NoData /\ ~shipped[v] => target'[v] = Absent)
    ]_vars

\* C7: when the link from target_path to the resolved source cannot be made,
\* the call makes a full copy instead on every platform, and raises
\* ActivationIOError only if the copy fails.
C7_CopyFallbackEverywhere ==
    last # <<>> /\ LastCall.symlinkFailed =>
        /\ LastCall.copyTried
        /\ (LastCall.outcome = "ActivationIOError" <=> LastCall.copyFailed)

\* C7 as amended: when the link cannot be made, the call makes a full copy of
\* the source only on Windows (the direct UI-resource path), where it raises
\* ActivationIOError only if that copy fails, a complete copy being left at a
\* free target_path otherwise; on the other platforms no copy is attempted and
\* the call raises ActivationIOError.
C7_CopyFallbackOnWindowsOnly ==
    last # <<>> /\ LastCall.symlinkFailed =>
        LET o == LastCall
        IN  IF system = "Windows"
            THEN /\ o.copyTried
                 /\ (o.outcome = "ActivationIOError" <=> o.copyFailed)
                 /\ (o.outcome = "ok" <=> ~o.copyFailed)
                 /\ (~o.copyFailed /\ ~o.removeFailed => target[o.video] = RegularFile(o.source))
            ELSE /\ ~o.copyTried
                 /\ o.outcome = "ActivationIOError"
                 /\ (~o.removeFailed => target[o.video] = Absent)

\* reached: on Windows a link was denied at a free target_path and the copy made
C7_Witness ==
    /\ last # <<>> /\ system = "Windows"
    /\ LastCall.faults.symlink = "fail" /\ LastCall.symlinkFailed /\ ~LastCall.removeFailed
    /\ LastCall.copyTried /\ ~LastCall.copyFailed
    /\ LastCall.outcome = "ok"
    /\ target[LastCall.video] = RegularFile(LastCall.source)

\* the ids of the records of a pool
PoolIds(seq) == {seq[k].id : k \in 1..Len(seq)}

\* the path stored by the first custom record with the id
StoredPath(seq, anim_id) ==
    seq[CHOOSE k \in 1..Len(seq) :
            seq[k].id = anim_id /\ \A j \in 1..(k - 1) : seq[j].id # anim_id].path

\* the path the first pool that holds the id gives, in the order downloaded
\* records, custom records, local scanner entries
FirstPoolPath(anim_id) ==
    IF anim_id \in PoolIds(config.downloads) THEN [root |-> "downloads", id |-> anim_id, ext |-> ".webm"]
    ELSE IF anim_id \in PoolIds(config.custom_animations) THEN StoredPath(config.custom_animations, anim_id)
    ELSE IF anim_id \in PoolIds(local_animations) THEN [root |-> "animations", id |-> anim_id, ext |-> ""]
    ELSE NoPath

\* C8: the path of an identifier is decided by the first pool that holds it,
\* in the order downloads, custom records, local entries, and the call raises
\* NotFoundError exactly when no pool holds it or that path does not exist.
C8_FirstPoolDecides ==
    last # <<>> /\ Attempted(LastCall) /\ LastCall.anim_id # <<>> =>
        LET o == LastCall
            expected == FirstPoolPath(o.anim_id)
            missing == expected = NoPath \/ expected \notin DOMAIN disk \/ disk[expected] = NoData
        IN  /\ (o.outcome = "NotFoundError" <=> missing)
            /\ o.path = expected
            /\ (~missing /\ o.outcome = "ok" /\ ~o.removeFailed
                    => target[o.video] \in {SymLink(expected), RegularFile(disk[expected])})

\* reached: an id whose download record is stale while a custom record with
\* the same id points to an existing file: NotFoundError, no fall-through
C8_Witness ==
    /\ last # <<>> /\ LastCall.outcome = "NotFoundError"
    /\ LastCall.anim_id \in PoolIds(config.downloads)
    /\ LastCall.anim_id \in PoolIds(config.custom_animations)
    /\ PathExists(disk, StoredPath(config.custom_animations, LastCall.anim_id))

\* the ids randomize_all may give slot i: the entries of the three pools with
\* the slot's target, less the exclusions
EligibleIds(i) ==
    {e.id : e \in {e \in {(local_animations \o config.downloads \o config.custom_animations)[k] :
                          k \in 1..(Len(local_animations) + Len(config.downloads)
                                    + Len(config.custom_animations))} :
                   e.target = VIDEO_TARGETS[i]}} \ config.shuffle_exclusions

\* C9: randomize_all gives no slot an identifier of the exclusion set, and a
\* slot whose eligible pool is empty holds no identifier after the call.
C9_ExcludedNeverChosenEmptyPoolCleared ==
    [][op'.name = "randomize" /\ op'.shuffle =>
        \A i \in 1..3 :
            /\ (config'[VIDEO_TYPES[i]] # config[VIDEO_TYPES[i]]
                    => config'[VIDEO_TYPES[i]] \notin config.shuffle_exclusions)
            /\ (EligibleIds(i) = {} => config'[VIDEO_TYPES[i]] = <<>>)
    ]_vars

\* the enabled sets, scanned and custom
EnabledSets ==
    {e \in {(local_sets \o config.custom_sets)[k] : k \in 1..(Len(local_sets) + Len(config.custom_sets))} :
        e.enabled}

\* the slots of cfg are those of set e
SlotsFromSet(cfg, e) ==
    /\ cfg.current_set = e.id
    /\ \A i \in 1..3 :
          cfg[VIDEO_TYPES[i]] = IF e[VIDEO_TYPES[i]] = "" THEN <<>> ELSE <<e.id, e[VIDEO_TYPES[i]]>>

\* C10: randomize_current_set takes the slots from an enabled set, and when no
\* set is enabled it leaves the three slot values as they were.
C10_NoEnabledSetLeavesSlots ==
    [][op'.name = "randomize" /\ ~op'.shuffle =>
        IF EnabledSets = {}
        THEN \A i \in 1..3 : config'[VIDEO_TYPES[i]] = config[VIDEO_TYPES[i]]
        ELSE \E e \in EnabledSets : SlotsFromSet(config', e)
    ]_vars

\* C10 as amended: randomize_current_set takes the slots from an enabled set,
\* and when no set is enabled it clears current_set and the three slots.
C10_NoEnabledSetClearsSlots ==
    [][op'.name = "randomize" /\ ~op'.shuffle =>
        IF EnabledSets = {}
        THEN /\ config'.current_set = ""
             /\ \A i \in 1..3 : config'[VIDEO_TYPES[i]] = <<>>
        ELSE \E e \in EnabledSets : SlotsFromSet(config', e)
    ]_vars

\* reached: randomize_current_set was called with a slot selected and no set
\* enabled, and the slots are empty
C10_Witness ==
    /\ op.name = "randomize" /\ ~op.shuffle /\ op.hadSelection
    /\ EnabledSets = {}
    /\ \A i \in 1..3 : config[VIDEO_TYPES[i]] = <<>>

\* the scanned and the custom sets with the id
SetsWithId(sets, cfg, set_id) ==
    {e \in {(sets \o cfg.custom_sets)[k] : k \in 1..(Len(sets) + Len(cfg.custom_sets))} : e.id = set_id}

\* C11: after enableSet(id, e) returns for an existing set, the set's enabled
\* flag is e; a rescan right after it still gives a local set the flag e; and
\* randomize_current_set right after enableSet(id, false) does not choose id.
C11_EnableSetSetsFlag ==
    [][/\ (op'.name = "enableSet" /\ ~op'.raised
            => \A e \in SetsWithId(local_sets', config', op'.arg[1]) : e.enabled = op'.arg[2])
       /\ (op.name = "enableSet" /\ ~op.raised /\ op'.name = "reloadConfiguration"
            => \A k \in 1..Len(local_sets') :
                  local_sets'[k].id = op.arg[1] => local_sets'[k].enabled = op.arg[2])
       /\ (op.name = "enableSet" /\ ~op.raised /\ op.arg[2] = FALSE
              /\ op'.name = "randomize" /\ ~op'.shuffle
            => config'.current_set # op.arg[1])
    ]_vars

\* the first of the five requests answered with 200 or 429, 0 if none is
FirstFinal(rs) ==
    IF \E i \in 1..5 : rs[i].status \in {200, 429}
    THEN CHOOSE i \in 1..5 : rs[i].status \in {200, 429} /\ \A j \in 1..(i - 1) : rs[j].status \notin {200, 429}
    ELSE 0

\* the entries a body gives: its boot and suspend posts, in order
ServedEntries(posts) ==
    LET keep == SelectSeq(posts, LAMBDA q : q.type \in {"boot_video", "suspend_video"})
    IN  [k \in 1..Len(keep) |->
            [id |-> keep[k].id, target |-> IF keep[k].type = "suspend_video" THEN "suspend" ELSE "boot"]]

\* C12: a catalog refresh makes at most 5 requests; it stops at the first 200
\* and, the body being valid, returns the parsed entries; it stops at a 429
\* with the rate-limit error; after five responses that are neither, it raises
\* the retries-exhausted error with the last status code.
C12_AtMostFiveAttempts ==
    fetched # NoFetch =>
        LET rs == fetched.responses
            n == FirstFinal(rs)
        IN  /\ fetched.attempts <= 5
            /\ IF n = 0
               THEN /\ fetched.attempts = 5
                    /\ fetched.outcome = "RetriesExceeded"
                    /\ fetched.status = rs[5].status
               ELSE /\ fetched.attempts = n
                    /\ (rs[n].status = 429 => fetched.outcome = "RateLimit")
                    /\ (rs[n].status = 200 /\ rs[n].valid
                            => fetched.outcome = "ok" /\ fetched.entries = ServedEntries(rs[n].posts))
                    /\ (rs[n].status = 200 /\ ~rs[n].valid => fetched.outcome = "BadBody")

\* reached: the responses 503, 503, 429 ended the call at the third request
C12_Witness ==
    /\ fetched # NoFetch
    /\ fetched.responses[1].status = 503 /\ fetched.responses[2].status = 503
    /\ fetched.responses[3].status = 429
    /\ fetched.attempts = 3 /\ fetched.outcome = "RateLimit"

\* C13: a refresh replaces the whole cache by the entries just fetched, or,
\* when the fetch fails, leaves the cache as it was; the cache never holds
\* entries of two fetches.
C13_CacheReplacedOrKept ==
    [][op'.name = "updateAnimationCache" =>
        LET rs == fetched'.responses
            n == FirstFinal(rs)
        IN  IF n # 0 /\ rs[n].status = 200 /\ rs[n].valid
            THEN animation_cache' = ServedEntries(rs[n].posts)
            ELSE animation_cache' = animation_cache
    ]_vars

\* reached: a refresh that failed while the cache held the entries of an
\* earlier one, which it still holds
C13_Witness ==
    /\ op.name = "updateAnimationCache"
    /\ fetched.outcome \in {"RateLimit", "RetriesExceeded", "BadBody"}
    /\ animation_cache = ServedEntries(PostsB)

\* a file is at <downloads_root>/<id>.webm
DownloadOnDisk(dsk, anim_id) ==
    [root |-> "downloads", id |-> anim_id, ext |-> ".webm"] \in DOMAIN dsk
        /\ dsk[[root |-> "downloads", id |-> anim_id, ext |-> ".webm"]].kind # "none"

\* C14: after any sequence of downloadAnimation and deleteAnimation calls,
\* failing ones included, an id has a record in the download list exactly
\* when its file <downloads_root>/<id>.webm is on disk.
C14_RecordIffFile ==
    \A anim_id \in DownloadIds :
        anim_id \in PoolIds(config.downloads) <=> DownloadOnDisk(disk, anim_id)

\* C15: a downloadAnimation call that raised or was abandoned leaves the
\* destination <downloads_root>/<id>.webm absent or holding the complete
\* downloaded content, never a partially written file.
C15_NoPartialDownload ==
    op.name = "downloadAnimation" /\ op.raised =>
        LET dst == [root |-> "downloads", id |-> op.arg[1], ext |-> ".webm"]
        IN  dst \in DOMAIN disk => disk[dst].kind \in {"none", "data"}

\* C16: when deleteAnimation(id) has returned, the download list has no
\* record with the id and the file <downloads_root>/<id>.webm does not exist;
\* an activation with that id right after it raises NotFoundError unless a
\* custom record or a local entry has the id.
C16_DeletedIsGone ==
    [][/\ (op'.name = "deleteAnimation" /\ ~op'.raised
            => /\ op'.arg[1] \notin PoolIds(config'.downloads)
               /\ ~DownloadOnDisk(disk', op'.arg[1]))
       /\ (/\ op.name = "deleteAnimation" /\ ~op.raised
           /\ op'.name = "apply_animation" /\ op'.arg = op.arg
           /\ op.arg[1] \notin PoolIds(config.custom_animations) \cup PoolIds(local_animations)
           => last'[1].outcome = "NotFoundError")
    ]_vars

\* reached: the activation of a deleted download, which no other pool holds,
\* raised NotFoundError
C16_Witness ==
    /\ op.name = "apply_animation" /\ op.raised
    /\ last # <<>> /\ LastCall.outcome = "NotFoundError"
    /\ LastCall.anim_id \in RepoIds
    /\ LastCall.anim_id \notin PoolIds(config.downloads) \cup PoolIds(config.custom_animations)
    /\ ~DownloadOnDisk(disk, LastCall.anim_id)

\* the positions of an event in the steps of startup
Positions(tr, event) == {k \in 1..Len(tr) : tr[k] = event}

\* C17: in startup the catalog is fetched at most once, and exactly once when
\* startup runs to its end without unload; a fetch comes only after the three
\* slots were activated and the delay has elapsed, never while the config is
\* loaded; and no fetch happens when the host unloaded before the delay ended.
C17_OneFetchAfterActivation ==
    /\ Cardinality(Positions(trace, "fetch")) <= 1
    /\ \A k \in Positions(trace, "fetch") :
          /\ \E a \in Positions(trace, "activate") : a < k
          /\ k > 1 /\ trace[k - 1] = "sleep"
    /\ (Positions(trace, "return") # {} => Positions(trace, "fetch") = {})
    /\ (pc = "done" /\ Positions(trace, "return") = {}
            => Cardinality(Positions(trace, "fetch")) = 1)

\* the default files of the three slots found in a directory
DefaultFilesIn(name) ==
    {f \in {get_video_names(system).boot, get_video_names(system).suspend,
            get_video_names(system).throbber} :
        [root |-> "animations", id |-> <<name, f>>, ext |-> ""] \in DOMAIN disk
            /\ disk[[root |-> "animations", id |-> <<name, f>>, ext |-> ""]].kind # "none"}

\* C18: when the config.json of a directory exists and does not parse, the
\* scan treats the directory by its default files: if one of the three exists,
\* the directory yields a set and an entry for each default file that exists.
C18_BadConfigFallsBackToDefaults ==
    op.name = "reloadConfiguration" =>
        \A d \in 1..Len(dirs) :
            dirs[d].cfg.state = "bad" /\ DefaultFilesIn(dirs[d].name) # {} =>
                /\ \E k \in 1..Len(local_sets) : local_sets[k].id = dirs[d].name
                /\ \A f \in DefaultFilesIn(dirs[d].name) :
                      <<dirs[d].name, f>> \in PoolIds(local_animations)

\* C19: every set a scan returns has a filename for at least one slot; a
\* directory none of whose three slot filenames resolves yields no set.
C19_EverySetHasAFile ==
    op.name = "reloadConfiguration" =>
        \A k \in 1..Len(local_sets) :
            local_sets[k].boot # "" \/ local_sets[k].suspend # "" \/ local_sets[k].throbber # ""

\* C20: apply_animation for a slot the platform does not support (suspend or
\* throbber on Windows, which takes boot only) returns without error and
\* changes neither target_path, nor a .backup file, nor any source file, nor
\* the config.
C20_UnsupportedSlotUntouched ==
    [][op'.name = "apply_animation" /\ system = "Windows" /\ last'[1].video \in {2, 3} =>
        /\ ~Raised(last'[1].outcome)
        /\ target' = target
        /\ backup' = backup
        /\ disk' = disk
        /\ config' = config /\ config_file' = config_file
    ]_vars

\* reached: on Windows a call for the suspend video with an animation that
\* exists was skipped, Steam's file still in place and no backup made
C20_Witness ==
    /\ system = "Windows" /\ op.name = "apply_animation"
    /\ last # <<>> /\ LastCall.video = 2 /\ LastCall.outcome = "skipped"
    /\ LastCall.anim_id \in PoolIds(local_animations)
    /\ target[2] = RegularFile(Vendor) /\ backup[2] = NoData

\* the scanned sets
ScannedSets == {local_sets[k] : k \in 1..Len(local_sets)}

\* C21: when randomize_current_set chooses a set S, current_set is S's id and
\* each slot is '<S id>/<S's filename for the slot>' where S has a filename
\* and empty where it has none; when S is a scanned set, every slot value that
\* is not empty is the id of an entry of local_animations.
C21_SlotsComeFromOneSet ==
    [][op'.name = "randomize" /\ ~op'.shuffle /\ EnabledSets # {} =>
        \E S \in EnabledSets :
            /\ config'.current_set = S.id
            /\ config'.boot = (IF S.boot = "" THEN <<>> ELSE <<S.id, S.boot>>)
            /\ config'.suspend = (IF S.suspend = "" THEN <<>> ELSE <<S.id, S.suspend>>)
            /\ config'.throbber = (IF S.throbber = "" THEN <<>> ELSE <<S.id, S.throbber>>)
            /\ (S \in ScannedSets =>
                   \A v \in {config'.boot, config'.suspend, config'.throbber} :
                       v # <<>> => \E k \in 1..Len(local_animations) : local_animations[k].id = v)
    ]_vars

\* reached: the scanned set setA was chosen: boot and suspend hold its
\* entries, throbber, for which it has no file, is empty
C21_Witness ==
    /\ op.name = "randomize" /\ ~op.shuffle
    /\ config.current_set = "setA"
    /\ config.boot = <<"setA", get_video_names(system).boot>>
    /\ config.suspend = <<"setA", get_video_names(system).suspend>>
    /\ config.throbber = <<>>
    /\ \E k \in 1..Len(local_animations) : local_animations[k].id = config.boot

\* the entries of the three pools
PoolEntries ==
    {(local_animations \o config.downloads \o config.custom_animations)[k] :
        k \in 1..(Len(local_animations) + Len(config.downloads) + Len(config.custom_animations))}

\* the ids randomize_all may give a slot: those of the entries with the target
\* named, less the exclusions
IdsWithTarget(tgt) == {e.id : e \in {x \in PoolEntries : x.target = tgt}} \ config.shuffle_exclusions

\* C22: every id randomize_all assigns to a slot is the id of a local,
\* downloaded or custom entry whose target is the slot's: boot entries for the
\* boot slot, suspend entries for the suspend slot and for the throbber slot;
\* and randomize_all clears current_set.
C22_SlotsDrawFromTheirTarget ==
    [][op'.name = "randomize" /\ op'.shuffle =>
        /\ config'.current_set = ""
        /\ (IdsWithTarget("boot") # {} => config'.boot \in IdsWithTarget("boot"))
        /\ (IdsWithTarget("suspend") # {} => config'.suspend \in IdsWithTarget("suspend"))
        /\ (IdsWithTarget("suspend") # {} => config'.throbber \in IdsWithTarget("suspend"))
    ]_vars

\* reached: randomize_all gave the throbber slot a suspend entry and the boot
\* slot a download
C22_Witness ==
    /\ op.name = "randomize" /\ op.shuffle
    /\ config.current_set = ""
    /\ config.throbber = <<"setA", get_video_names(system).suspend>>
    /\ \E k \in 1..Len(config.downloads) : config.downloads[k].id = config.boot

\* the records of the download list with the id given
RecordsOf(cfg, anim_id) == {k \in 1..Len(cfg.downloads) : cfg.downloads[k].id = anim_id}

\* C23: however the calls interleave, the download list never holds two
\* records with one id, and a downloadAnimation call for an id that is in the
\* list asks nothing of the network and changes nothing.
C23_NoDuplicateDownloads ==
    [][/\ \A anim_id \in DownloadIds : Cardinality(RecordsOf(config', anim_id)) <= 1
       /\ (/\ op'.name = "downloadAnimation"
           /\ op'.arg[2] # "resume"
           /\ RecordsOf(config, op'.arg[1]) # {}
           => /\ op'.arg[2] = "return"
              /\ UNCHANGED <<config, config_file, disk, inflight>>)
    ]_vars

\* two calls for one id are suspended on their request at the same time
C23_Overlap ==
    /\ Len(inflight) = 2
    /\ inflight[1].anim_id = inflight[2].anim_id

\* the list holds two records of one download
C23_Duplicate == \E anim_id \in DownloadIds : Cardinality(RecordsOf(config, anim_id)) = 2

\* the positions of the entries of a list with the id given
EntriesOf(list, id) == {k \in 1..Len(list) : list[k].id = id}

\* the ids of a list
ListIds(list) == {list[k].id : k \in 1..Len(list)}

\* no two entries of the list have one id
OnePerId(list) == \A id \in ListIds(list) : Cardinality(EntriesOf(list, id)) = 1

\* the entries of a list with another id than the one given, in their order
Others(list, id) == SelectSeq(list, LAMBDA e : e.id # id)

\* the list after the handler named holds the entry given once and no other
\* entry with its id
SavedIn(before, after, entry) ==
    /\ \E k \in 1..Len(after) : after[k] = entry /\ EntriesOf(after, entry.id) = {k}
    /\ Others(after, entry.id) = Others(before, entry.id)

\* the list after the handler named holds no entry with the id and every
\* other entry as before
RemovedFrom(before, after, id) ==
    /\ EntriesOf(after, id) = {}
    /\ after = Others(before, id)

\* C24: the list of custom sets and the list of custom animations hold at
\* most one entry per id after any sequence of the four handlers; a save puts
\* the entry in place of the one with its id, a remove leaves no entry with
\* the id, and both leave the entries with other ids as they were.
C24_OneEntryPerId ==
    [][/\ OnePerId(config'.custom_sets) /\ OnePerId(config'.custom_animations)
       /\ (op'.name = "saveCustomSet" =>
              /\ SavedIn(config.custom_sets, config'.custom_sets, op'.arg[1])
              /\ config'.custom_animations = config.custom_animations)
       /\ (op'.name = "removeCustomSet" =>
              /\ RemovedFrom(config.custom_sets, config'.custom_sets, op'.arg[1])
              /\ config'.custom_animations = config.custom_animations)
       /\ (op'.name = "saveCustomAnimation" =>
              /\ SavedIn(config.custom_animations, config'.custom_animations, op'.arg[1])
              /\ config'.custom_sets = config.custom_sets)
       /\ (op'.name = "removeCustomAnimation" =>
              /\ RemovedFrom(config.custom_animations, config'.custom_animations, op'.arg[1])
              /\ config'.custom_sets = config.custom_sets)
    ]_vars

\* reached: saveCustomSet was called with the disabled "mine" while the list
\* held another "mine" and the set "other"; the list holds "other" and the
\* new "mine"
C24_Witness ==
    /\ op.name = "saveCustomSet"
    /\ op.arg = <<CustomSet(FALSE), TRUE>>
    /\ Len(config.custom_sets) = 2
    /\ config.custom_sets[1].id = "other"
    /\ config.custom_sets[2] = CustomSet(FALSE)

====
